---- MODULE Spec2Model ----
(***************************************************************************)
(* A model of LXML_Dumper (src/__init__.py): the rule-driven recursive     *)
(* dump of an element tree, the formatting of one element (format_element, *)
(* relwrap, with textwrap.wrap and textwrap.dedent as Python 2 computes    *)
(* them) and the tag listing used by build_tag_graph.                      *)
(*                                                                         *)
(* A Python string is a sequence of one-character strings.  None and ''    *)
(* are both <<>> where the code only tests truthiness (title, text).       *)
(***************************************************************************)
EXTENDS Integers, Sequences, FiniteSets, TLC

(***************************************************************************)
(* Bounds of the model.                                                    *)
(***************************************************************************)
\* nodes of a dumped tree
MaxNodes == 4
\* largest initial depth handed to dump
MaxInitDepth == 1
\* largest maxdepth handed to dump
MaxMaxdepth == 2
\* longest element text enumerated for format_element
MaxTextLen == 3
\* largest depth handed to format_element on its own
MaxFmtDepth == 2
\* the width of a dumper constructed with a narrow width=
NarrowWidth == 14

\* LXML_Dumper.width
Width == 80

(***************************************************************************)
(* Strings.                                                                *)
(***************************************************************************)
SP == " "
NL == "\n"

Last(s) == s[Len(s)]
Front(s) == SubSeq(s, 1, Len(s) - 1)

RECURSIVE Concat(_)
Concat(ss) == IF ss = <<>> THEN <<>> ELSE Head(ss) \o Concat(Tail(ss))

RECURSIVE Join(_, _)
\* sep.join(ss)
Join(sep, ss) ==
    IF ss = <<>> THEN <<>>
    ELSE IF Len(ss) = 1 THEN ss[1]
    ELSE ss[1] \o sep \o Join(sep, Tail(ss))

RECURSIVE Split(_, _)
\* s.split(c): the pieces between the occurrences of the character c
Split(s, c) ==
    IF \A i \in 1..Len(s) : s[i] # c THEN <<s>>
    ELSE LET k == CHOOSE i \in 1..Len(s) : s[i] = c /\ \A j \in 1..(i-1) : s[j] # c
         IN <<SubSeq(s, 1, k - 1)>> \o Split(SubSeq(s, k + 1, Len(s)), c)

\* '    ' * n
Spaces(n) == [i \in 1..n |-> SP]

\* the number of leading spaces of a line
LeadingSpaces(s) ==
    IF \A i \in 1..Len(s) : s[i] = SP THEN Len(s)
    ELSE (CHOOSE i \in 1..Len(s) : s[i] # SP /\ \A j \in 1..(i-1) : s[j] = SP) - 1

\* chunk.strip() == '' for a chunk of the munged text
IsBlank(s) == \A i \in 1..Len(s) : s[i] \in {SP, NL}

Min(S) == CHOOSE m \in S : \A n \in S : m <= n

(***************************************************************************)
(* textwrap.dedent (Python 2), on text without tabs.                       *)
(***************************************************************************)
dedent(text) ==
    LET raw == Split(text, NL)
        \* _whitespace_only_re.sub('', text)
        lines == [i \in 1..Len(raw) |-> IF IsBlank(raw[i]) THEN <<>> ELSE raw[i]]
        \* _leading_whitespace_re.findall(text)
        indents == {LeadingSpaces(lines[i]) : i \in {j \in 1..Len(lines) : lines[j] # <<>>}}
        margin == IF indents = {} THEN 0 ELSE Min(indents)
        cut == [i \in 1..Len(lines) |->
                  IF lines[i] = <<>> THEN <<>>
                  ELSE SubSeq(lines[i], margin + 1, Len(lines[i]))]
    IN Join(<<NL>>, cut)

(***************************************************************************)
(* textwrap.wrap (Python 2 TextWrapper with its defaults: expand_tabs,     *)
(* replace_whitespace, drop_whitespace, break_long_words), on text without *)
(* tabs and hyphens.                                                       *)
(***************************************************************************)
\* TextWrapper._munge_whitespace
munge_whitespace(text) == [i \in 1..Len(text) |-> IF text[i] = NL THEN SP ELSE text[i]]

RECURSIVE split_chunks(_)
\* TextWrapper._split: the maximal runs of whitespace and of non-whitespace
split_chunks(text) ==
    IF text = <<>> THEN <<>>
    ELSE LET ws == text[1] = SP
             same(i) == (text[i] = SP) = ws
             n == IF \A i \in 1..Len(text) : same(i) THEN Len(text)
                  ELSE (CHOOSE i \in 1..Len(text) :
                            ~same(i) /\ \A j \in 1..(i-1) : same(j)) - 1
         IN <<SubSeq(text, 1, n)>> \o split_chunks(SubSeq(text, n + 1, Len(text)))

RECURSIVE take_fit(_, _, _, _)
\* the inner while of _wrap_chunks: chunks are moved to the line while they fit
take_fit(chunks, cur_line, cur_len, width) ==
    IF chunks # <<>> /\ cur_len + Len(Head(chunks)) <= width
    THEN take_fit(Tail(chunks), Append(cur_line, Head(chunks)),
                  cur_len + Len(Head(chunks)), width)
    ELSE [cur_line |-> cur_line, cur_len |-> cur_len, chunks |-> chunks]

\* s[:n] and s[n:]
Take(s, n) == SubSeq(s, 1, IF n < Len(s) THEN n ELSE Len(s))
Drop(s, n) == SubSeq(s, (IF n < Len(s) THEN n ELSE Len(s)) + 1, Len(s))

\* TextWrapper._handle_long_word with break_long_words
handle_long_word(st, width) ==
    LET space_left == IF width < 1 THEN 1 ELSE width - st.cur_len
        word == Head(st.chunks)
    IN [cur_line |-> Append(st.cur_line, Take(word, space_left)),
        cur_len |-> st.cur_len,
        chunks |-> <<Drop(word, space_left)>> \o Tail(st.chunks)]

RECURSIVE wrap_chunks(_, _, _, _, _)
\* TextWrapper._wrap_chunks: one turn of the outer while per call.  A turn that
\* neither consumes a chunk nor adds a line repeats for ever (an indent wider than
\* the width, before text that starts with whitespace): hang.
wrap_chunks(chunks, lines, width, initial_indent, subsequent_indent) ==
    IF chunks = <<>> THEN [lines |-> lines, hang |-> FALSE]
    ELSE LET indent == IF lines # <<>> THEN subsequent_indent ELSE initial_indent
             w == width - Len(indent)
             c1 == IF IsBlank(Head(chunks)) /\ lines # <<>> THEN Tail(chunks) ELSE chunks
             fit == take_fit(c1, <<>>, 0, w)
             st == IF fit.chunks # <<>> /\ Len(Head(fit.chunks)) > w
                   THEN handle_long_word(fit, w) ELSE fit
             cur == IF st.cur_line # <<>> /\ IsBlank(Last(st.cur_line))
                    THEN Front(st.cur_line) ELSE st.cur_line
         IN IF cur = <<>> /\ st.chunks = chunks
            THEN [lines |-> lines, hang |-> TRUE]
            ELSE wrap_chunks(st.chunks,
                             IF cur # <<>> THEN Append(lines, indent \o Concat(cur))
                             ELSE lines,
                             width, initial_indent, subsequent_indent)

\* textwrap.wrap(text, width=, initial_indent=, subsequent_indent=)
wrap(text, width, initial_indent, subsequent_indent) ==
    wrap_chunks(split_chunks(munge_whitespace(text)), <<>>,
                width, initial_indent, subsequent_indent)

(***************************************************************************)
(* The element tree (lxml.etree, consumed by the dumper).  A tree is a     *)
(* record of three sequences indexed by node: parent (0 for the root; a    *)
(* parent precedes its children and siblings are ordered by index), tag    *)
(* and text.                                                               *)
(***************************************************************************)
Tags == {"chapter", "section", "para", "title"}

\* the characters of a tag
Chars(tag) ==
    CASE tag = "chapter" -> <<"c", "h", "a", "p", "t", "e", "r">>
      [] tag = "section" -> <<"s", "e", "c", "t", "i", "o", "n">>
      [] tag = "para" -> <<"p", "a", "r", "a">>
      [] tag = "title" -> <<"t", "i", "t", "l", "e">>

\* str(k) for a one-digit k
Digit(k) ==
    CASE k = 1 -> "1" [] k = 2 -> "2" [] k = 3 -> "3" [] k = 4 -> "4" [] k = 5 -> "5"
      [] k = 6 -> "6" [] k = 7 -> "7" [] k = 8 -> "8" [] k = 9 -> "9"

NodesOf(t) == 1..Len(t.parent)

\* element.getchildren(): the children of n, in sibling order
getchildren(t, n) ==
    SelectSeq([i \in 1..Len(t.parent) |-> i], LAMBDA m : t.parent[m] = n)

\* element.find(tag): the first child with that tag, 0 for None
find(t, n, tag) ==
    LET c == SelectSeq(getchildren(t, n), LAMBDA m : t.tag[m] = tag)
    IN IF c = <<>> THEN 0 ELSE c[1]

RECURSIVE preorder(_, _)
RECURSIVE preorder_all(_, _)
\* n followed by its descendants, in document order
preorder(t, n) == <<n>> \o preorder_all(t, getchildren(t, n))
preorder_all(t, ns) ==
    IF ns = <<>> THEN <<>> ELSE preorder(t, Head(ns)) \o preorder_all(t, Tail(ns))

\* root.iterdescendants(): the descendants of root in document order, root excluded
iterdescendants(t, root) == Tail(preorder(t, root))

RECURSIVE ancestors(_, _)
\* the proper ancestors of n
ancestors(t, n) ==
    IF t.parent[n] = 0 THEN {} ELSE {t.parent[n]} \cup ancestors(t, t.parent[n])

RECURSIVE getpath(_, _)
\* element.getroottree().getpath(element): /tag steps from the root, with [k] where
\* the parent has several children of that tag
getpath(t, n) ==
    LET p == t.parent[n]
        twins == SelectSeq(getchildren(t, p), LAMBDA m : t.tag[m] = t.tag[n])
        k == Cardinality({m \in 1..n : t.parent[m] = p /\ t.tag[m] = t.tag[n]})
        step == <<"/">> \o Chars(t.tag[n])
    IN IF p = 0 THEN step
       ELSE getpath(t, p) \o step
            \o (IF Len(twins) > 1 THEN <<"[", Digit(k), "]">> ELSE <<>>)

(***************************************************************************)
(* The dumper object: self.maxdepth, self.width, self.rules.  An optional  *)
(* value is a sequence of length 0 (None, or an absent keyword) or 1.      *)
(***************************************************************************)
None == <<>>
Some(v) == <<v>>

\* kwargs.get(k, default) of a FormatSpec (a function from option names to booleans)
Arg(kwargs, k, default) == IF k \in DOMAIN kwargs THEN kwargs[k] ELSE default

\* a FormatSpec without the key k
Without(kwargs, k) == [j \in (DOMAIN kwargs) \ {k} |-> kwargs[j]]

\* Bug variant of relwrap: continuation lines get the same indent as the first line.
relwrap_flat(self, text, depth) ==
    LET w == wrap(text, self.width, Spaces(4 * depth), Spaces(4 * depth))
    IN [str |-> Join(<<NL>>, w.lines), hang |-> w.hang]

\* LXML_Dumper.relwrap(text, depth=depth): the wrapped text, or hang when wrap
\* does not return
relwrap(self, text, depth) ==
    LET w == wrap(text, self.width, Spaces(4 * depth), Spaces(4 * depth) \o <<SP, SP>>)
    IN [str |-> Join(<<NL>>, w.lines), hang |-> w.hang]

\* Bug variant of format_element: the text block is wrapped at the element's own depth.
format_element_flat(self, t, n, depth, kwargs) ==
    LET linebreak == Arg(kwargs, "linebreak", FALSE)
        with_text == Arg(kwargs, "with_text", TRUE)
        tn == find(t, n, "title")
        title0 == IF tn = 0 THEN <<>> ELSE t.text[tn]
        title == IF title0 # <<>> THEN title0 ELSE <<"[">> \o Chars(t.tag[n]) \o <<"]">>
        head == title \o <<SP, "(">> \o getpath(t, n) \o <<")">>
        eltext == dedent(t.text[n])
        summary == relwrap(self, head \o <<":">>, depth)
        body == relwrap(self, eltext, depth)
        line == relwrap(self, IF with_text THEN head \o <<":", SP>> \o eltext ELSE head,
                        depth)
    IN IF linebreak
       THEN [str |-> Join(<<NL>>, <<summary.str, body.str>>),
             hang |-> summary.hang \/ body.hang]
       ELSE line

\* LXML_Dumper.format_element(element, depth, **kwargs): the string returned, or
\* hang when relwrap does not return
format_element(self, t, n, depth, kwargs) ==
    LET linebreak == Arg(kwargs, "linebreak", FALSE)
        with_text == Arg(kwargs, "with_text", TRUE)
        tn == find(t, n, "title")
        title0 == IF tn = 0 THEN <<>> ELSE t.text[tn]
        title == IF title0 # <<>> THEN title0 ELSE <<"[">> \o Chars(t.tag[n]) \o <<"]">>
        path == getpath(t, n)
        eltext == dedent(t.text[n])
        head == title \o <<SP, "(">> \o path \o <<")">>
        summary == relwrap(self, head \o <<":">>, depth)
        body == relwrap(self, eltext, depth + 1)
        line == relwrap(self, IF with_text THEN head \o <<":", SP>> \o eltext ELSE head,
                        depth)
    IN IF linebreak
       THEN [str |-> Join(<<NL>>, <<summary.str, body.str>>),
             hang |-> summary.hang \/ body.hang]
       ELSE line

(***************************************************************************)
(* Rulesets.  A ruleset maps tags (and the None key) to FormatSpecs.  The  *)
(* heap holds the mapping objects by reference: the two presets of         *)
(* LXML_Dumper.rulesets and the mappings a caller passes as rules=.        *)
(***************************************************************************)
NoneKey == "None"

\* LXML_Dumper.rulesets
rulesets ==
    [book |-> ("section" :> [with_text |-> FALSE]) @@ ("para" :> [linebreak |-> TRUE])
              @@ (NoneKey :> [recurse |-> TRUE]),
     full |-> (NoneKey :> [recurse |-> TRUE])]

\* mappings of the caller: one without a None entry, one that breaks every line
CallerMappings ==
    [m1 |-> ("chapter" :> [recurse |-> TRUE, with_text |-> FALSE]),
     m2 |-> (NoneKey :> [recurse |-> TRUE, linebreak |-> TRUE])
            @@ ("para" :> [recurse |-> FALSE])]

Heap0 == rulesets @@ CallerMappings

\* the values a caller passes as rules= (or stores in self.rules)
Str(name) == [kind |-> "str", name |-> name]
Mapping(ref) == [kind |-> "Mapping", name |-> ref]
Other == [kind |-> "int", name |-> "5"]

RECURSIVE Orders(_)
\* the orders in which a dict's items may be iterated
Orders(S) ==
    IF S = {} THEN {<<>>}
    ELSE UNION {{<<k>> \o o : o \in Orders(S \ {k})} : k \in S}

\* Bug variant of copy: the rule's own dict is handed on, not a copy of it.
copy_alias(obj) == obj

\* copy.copy(rule[1]): a new dict with the same items, owned by nobody else
copy(obj) == [val |-> obj.val, at |-> <<>>]

\* rule[1] of the item with key k: the dict stored in the mapping ref
item(h, ref, k) == [val |-> h[ref][k], at |-> <<ref, k>>]

RECURSIVE lookup_first(_, _, _, _, _)
\* Bug variant of lookup: the None entry ends the search like a matching tag.
lookup_first(h, ref, order, tag, default) ==
    IF order = <<>> THEN [raised |-> TRUE, kwargs |-> [val |-> <<>>, at |-> <<>>]]
    ELSE IF Head(order) = NoneKey \/ Head(order) = tag
         THEN [raised |-> FALSE, kwargs |-> copy(item(h, ref, Head(order)))]
         ELSE lookup_first(h, ref, Tail(order), tag, default)

RECURSIVE lookup_silent(_, _, _, _, _)
\* Bug variant of lookup: with no rule and no None entry an empty FormatSpec is used.
lookup_silent(h, ref, order, tag, default) ==
    IF order = <<>>
    THEN IF default = <<>> THEN [raised |-> FALSE, kwargs |-> [val |-> <<>>, at |-> <<>>]]
         ELSE [raised |-> FALSE, kwargs |-> default[1]]
    ELSE IF Head(order) = NoneKey
         THEN lookup_silent(h, ref, Tail(order), tag, <<copy(item(h, ref, NoneKey))>>)
         ELSE IF Head(order) = tag
              THEN [raised |-> FALSE, kwargs |-> copy(item(h, ref, tag))]
              ELSE lookup_silent(h, ref, Tail(order), tag, default)

RECURSIVE lookup(_, _, _, _, _)
\* the for ... else of _dump over rules.iteritems() in the order `order`: default is
\* <<>> while unbound; the result is the kwargs found, or raised (the assert fails)
lookup(h, ref, order, tag, default) ==
    IF order = <<>>
    THEN IF default = <<>> THEN [raised |-> TRUE, kwargs |-> [val |-> <<>>, at |-> <<>>]]
         ELSE [raised |-> FALSE, kwargs |-> default[1]]
    ELSE IF Head(order) = NoneKey
         THEN lookup(h, ref, Tail(order), tag, <<copy(item(h, ref, NoneKey))>>)
         ELSE IF Head(order) = tag
              THEN [raised |-> FALSE, kwargs |-> copy(item(h, ref, tag))]
              ELSE lookup(h, ref, Tail(order), tag, default)

\* the heap after kwargs.pop('recurse', False): the dict kwargs refers to loses the key
pop_recurse(h, kwargs) ==
    IF kwargs.at = <<>> THEN h
    ELSE [h EXCEPT ![kwargs.at[1]][kwargs.at[2]] = Without(kwargs.val, "recurse")]

\* Bug variant of the depth test: one level too deep.
may_recurse_ge(recurse, maxdepth, depth) ==
    recurse /\ (maxdepth = None \/ maxdepth[1] >= depth)

\* if recurse: if (maxdepth is None or maxdepth > depth)
may_recurse(recurse, maxdepth, depth) ==
    recurse /\ (maxdepth = None \/ maxdepth[1] > depth)

\* Bug variant of the loop over the children: last child first.
children_reversed(t, n) ==
    LET c == getchildren(t, n) IN [i \in 1..Len(c) |-> c[Len(c) + 1 - i]]

\* for child in element.getchildren()
children_loop(t, n) == getchildren(t, n)

\* Bug variant of print: the line is dropped.
print_nothing(out, rec) == out

\* print: the string goes to standard output (rec.str; the rest of rec notes which
\* _dump call printed it)
print(out, rec) == Append(out, rec)

\* Bug variant of the recursive call: the child is dumped at its parent's depth.
child_depth_same(depth) == depth

\* _dump(child, depth + 1)
child_depth(depth) == depth + 1

\* Bug variant of the preset lookup: an unknown name falls back to 'book'.
resolve_fallback(rules) ==
    IF rules.kind = "Mapping" THEN [raised |-> "", ref |-> rules.name]
    ELSE IF rules.kind = "str"
         THEN [raised |-> "",
               ref |-> IF rules.name \in DOMAIN rulesets THEN rules.name ELSE "book"]
         ELSE [raised |-> "AssertionError", ref |-> ""]

\* dump, lines 119-123: a Mapping is kept, a string is looked up in self.rulesets
\* (KeyError), anything else fails the assert
resolve(rules) ==
    IF rules.kind = "Mapping" THEN [raised |-> "", ref |-> rules.name]
    ELSE IF rules.kind = "str"
         THEN IF rules.name \in DOMAIN rulesets THEN [raised |-> "", ref |-> rules.name]
              ELSE [raised |-> "KeyError", ref |-> ""]
         ELSE [raised |-> "AssertionError", ref |-> ""]

(***************************************************************************)
(* The inputs: trees, dumper objects, keyword arguments of dump.           *)
(***************************************************************************)
\* the text of the elements of a dumped tree, by tag: a container's text is the
\* whitespace before its first child, a para holds indented lines of words
TextOf(tag) ==
    CASE tag = "chapter" -> <<NL, SP, SP>>
      [] tag = "section" -> <<>>
      [] tag = "para" -> <<NL, SP, SP, "a", "b", SP, "c", NL, SP, SP, "d", "e", NL>>
      [] tag = "title" -> <<"T", SP, "t">>

\* the parent sequences of the trees with n nodes
Parents(n) == {p \in [1..n -> 0..(n - 1)] : p[1] = 0 /\ \A i \in 2..n : p[i] \in 1..(i - 1)}

WalkTags == {"chapter", "para"}

Trees ==
    {[parent |-> p, tag |-> tg, text |-> [i \in 1..MaxNodes |-> TextOf(tg[i])]] :
        p \in Parents(MaxNodes), tg \in [1..MaxNodes -> WalkTags]}

NoTree == [parent |-> <<>>, tag |-> <<>>, text |-> <<>>]

\* LXML_Dumper() and LXML_Dumper(maxdepth=, width=, rules='full')
Dumpers ==
    {[maxdepth |-> None, width |-> Width, rules |-> Mapping("book")],
     [maxdepth |-> Some(MaxMaxdepth), width |-> NarrowWidth, rules |-> Str("full")]}

\* the keyword arguments of a dump call: each is absent (<<>>) or <<value>>
Kwargs ==
    {[depth |-> None, maxdepth |-> None, rules |-> r] :
        r \in {None, Some(Str("book")), Some(Str("nonexistent")), Some(Other),
               Some(Mapping("m1")), Some(Mapping("m2"))}}
    \cup {[depth |-> Some(d), maxdepth |-> Some(m), rules |-> Some(Str("full"))] :
            d \in {0, MaxInitDepth},
            m \in {None} \cup {Some(k) : k \in 0..MaxMaxdepth}}

(***************************************************************************)
(* State.                                                                  *)
(***************************************************************************)
VARIABLES
    self,     \* the dumper object: maxdepth, width, rules
    heap,     \* the mapping objects, by reference: presets and caller mappings
    tree,     \* the parsed document whose elements are dumped
    call,     \* the locals of dump: element, depth, maxdepth, rules, and its kwargs
    stack,    \* the frames of _dump, innermost last
    stdout,   \* what the running (or last) call printed, one record per print
    err,      \* the exception the last call raised, and the node it was raised at
    pc,       \* idle | walk | hung (wrap never returns) | list | built | format
    gen       \* iter_tag_list's generator and build_tag_graph's graph

vars == <<self, heap, tree, call, stack, stdout, err, pc, gen>>

NoErr == [type |-> "", node |-> 0]
NoCall == [element |-> 0, depth |-> 0, maxdepth |-> None, rules |-> "", kw |-> <<>>]
NoGen == [root |-> 0, todo |-> <<>>, found_tags |-> {}, tags |-> <<>>,
          nodes |-> <<>>, edges |-> {}]

Init ==
    /\ self \in Dumpers
    /\ heap = Heap0
    /\ tree \in Trees
    /\ call = NoCall
    /\ stack = <<>>
    /\ stdout = <<>>
    /\ err = NoErr
    /\ pc = "idle"
    /\ gen = NoGen

(***************************************************************************)
(* dump(element, **kwargs)                                                 *)
(***************************************************************************)
Top == stack[Len(stack)]

\* dump up to the call of _dump: the keyword arguments are popped, rules resolved
Dump(element, kw) ==
    /\ pc = "idle"
    /\ LET depth == IF kw.depth = None THEN 0 ELSE kw.depth[1]
           maxdepth == IF kw.maxdepth = None THEN self.maxdepth ELSE kw.maxdepth[1]
           rules == IF kw.rules = None THEN self.rules ELSE kw.rules[1]
           r == resolve(rules)
       IN /\ stdout' = <<>>
          /\ call' = [element |-> element, depth |-> depth, maxdepth |-> maxdepth,
                      rules |-> r.ref, kw |-> kw]
          /\ IF r.raised # ""
             THEN /\ err' = [type |-> r.raised, node |-> 0]
                  /\ stack' = <<>>
                  /\ pc' = "idle"
             ELSE /\ err' = NoErr
                  /\ stack' = <<[node |-> element, depth |-> depth, pc |-> "enter",
                                 descend |-> FALSE, i |-> 1]>>
                  /\ pc' = "walk"
    /\ UNCHANGED <<self, heap, tree, gen>>

\* _dump(element, depth) up to its loop over the children: the rule is looked up,
\* recurse popped, the element formatted and printed
Enter ==
    /\ pc = "walk" /\ stack # <<>> /\ Top.pc = "enter"
    /\ \E order \in Orders(DOMAIN heap[call.rules]) :
         LET r == lookup(heap, call.rules, order, tree.tag[Top.node], <<>>)
             recurse == Arg(r.kwargs.val, "recurse", FALSE)
             kwargs == Without(r.kwargs.val, "recurse")
             f == format_element(self, tree, Top.node, Top.depth, kwargs)
         IN IF r.raised
            THEN /\ err' = [type |-> "AssertionError", node |-> Top.node]
                 /\ stack' = <<>>
                 /\ pc' = "idle"
                 /\ UNCHANGED <<heap, stdout>>
            ELSE /\ heap' = pop_recurse(heap, r.kwargs)
                 /\ IF f.hang
                    THEN pc' = "hung" /\ UNCHANGED <<stdout, stack>>
                    ELSE /\ stdout' = print(stdout,
                               [node |-> Top.node, depth |-> Top.depth,
                                spec |-> r.kwargs.val, str |-> f.str])
                         /\ stack' = [stack EXCEPT ![Len(stack)] =
                               [@ EXCEPT !.pc = "loop",
                                         !.descend = may_recurse(recurse, call.maxdepth,
                                                                 Top.depth)]]
                         /\ pc' = pc
                 /\ err' = err
    /\ UNCHANGED <<self, tree, call, gen>>

\* the next turn of the loop over the children: _dump(child, depth + 1) is called
Child ==
    /\ pc = "walk" /\ stack # <<>> /\ Top.pc = "loop"
    /\ Top.descend /\ Top.i <= Len(children_loop(tree, Top.node))
    /\ stack' = Append([stack EXCEPT ![Len(stack)] = [@ EXCEPT !.i = @ + 1]],
                       [node |-> children_loop(tree, Top.node)[Top.i],
                        depth |-> child_depth(Top.depth), pc |-> "enter",
                        descend |-> FALSE, i |-> 1])
    /\ UNCHANGED <<self, heap, tree, call, stdout, err, pc, gen>>

\* _dump returns; the outermost return ends dump
Return ==
    /\ pc = "walk" /\ stack # <<>> /\ Top.pc = "loop"
    /\ ~(Top.descend /\ Top.i <= Len(children_loop(tree, Top.node)))
    /\ stack' = Front(stack)
    /\ pc' = IF Len(stack) = 1 THEN "idle" ELSE "walk"
    /\ UNCHANGED <<self, heap, tree, call, stdout, err, gen>>

Next ==
    \/ \E kw \in Kwargs : Dump(1, kw)
    \/ Enter
    \/ Child
    \/ Return

\* dump called again and again on the elements of one document
Spec == Init /\ [][Next]_vars

(***************************************************************************)
(* format_element on its own: one element (with or without a title child)  *)
(* is dumped with maxdepth=0 at the depths 0..MaxFmtDepth under the two     *)
(* presets.                                                                *)
(***************************************************************************)
Alphabet == {SP, NL, "a"}

\* the strings over the alphabet of length at most n
Strings(n) == UNION {[1..k -> Alphabet] : k \in 0..n}

RECURSIVE Repeat(_, _)
Repeat(s, k) == IF k = 0 THEN <<>> ELSE s \o Repeat(s, k - 1)

\* repetitions of the line of a long text
LongReps == 12

\* texts longer than the default width: indented lines of one word, and the same
\* after a first empty line
LongTexts ==
    {Repeat(<<SP, SP, "a", "b", "c", "d", "e", "f", NL>>, LongReps),
     <<NL>> \o Repeat(<<SP, SP, "a", "b", "c", "d", "e", "f", NL>>, LongReps)}

FmtTexts == Strings(MaxTextLen) \cup LongTexts

FmtTitles == {<<"T", SP, "t">>, <<SP, "T">>}

FmtTrees ==
    {[parent |-> <<0>>, tag |-> <<tg>>, text |-> <<tx>>] :
        tg \in {"para", "section"}, tx \in FmtTexts}
    \cup {[parent |-> <<0, 1>>, tag |-> <<tg, "title">>, text |-> <<tx, ti>>] :
            tg \in {"para", "section"}, tx \in FmtTexts, ti \in FmtTitles}

FmtKwargs ==
    {[depth |-> Some(d), maxdepth |-> Some(Some(0)), rules |-> Some(Str(r))] :
        d \in 0..MaxFmtDepth, r \in {"book", "full"}}

InitFmt ==
    /\ self \in Dumpers
    /\ heap = Heap0
    /\ tree \in FmtTrees
    /\ call = NoCall
    /\ stack = <<>>
    /\ stdout = <<>>
    /\ err = NoErr
    /\ pc = "idle"
    /\ gen = NoGen

NextFmt ==
    \/ \E kw \in FmtKwargs : Dump(1, kw)
    \/ Enter
    \/ Return

SpecFmt == InitFmt /\ [][NextFmt]_vars

(***************************************************************************)
(* build_tag_graph(root), with iter_tag_list's generator run step by step. *)
(***************************************************************************)
RECURSIVE unique(_, _)
\* the loop of iter_unique_child_tags and iter_tag_list: the items not found before
unique(items, found) ==
    IF items = <<>> THEN <<>>
    ELSE IF Head(items) \in found THEN unique(Tail(items), found)
         ELSE <<Head(items)>> \o unique(Tail(items), found \cup {Head(items)})

\* LXML_Dumper.iter_unique_child_tags(root, tag)
iter_unique_child_tags(t, root, tag) ==
    LET instances == SelectSeq(iterdescendants(t, root), LAMBDA n : t.tag[n] = tag)
        child_nodes == Concat([i \in 1..Len(instances) |-> getchildren(t, instances[i])])
        child_tags == [i \in 1..Len(child_nodes) |-> t.tag[child_nodes[i]]]
    IN unique(child_tags, {})

\* Range of a sequence
Range(s) == {s[i] : i \in 1..Len(s)}

\* build_tag_graph(root) up to the first next() of iter_tag_list(root)
BuildTagGraph(root) ==
    /\ pc \in {"idle", "built"}
    /\ gen' = [root |-> root, todo |-> iterdescendants(tree, root), found_tags |-> {},
               tags |-> <<>>, nodes |-> <<>>, edges |-> {}]
    /\ pc' = "list"
    /\ UNCHANGED <<self, heap, tree, call, stack, stdout, err>>

\* one turn of iter_tag_list's loop: the tag is yielded unless found before
IterTagList ==
    /\ pc = "list" /\ gen.todo # <<>>
    /\ LET t == tree.tag[Head(gen.todo)]
       IN gen' = IF t \notin gen.found_tags
                 THEN [gen EXCEPT !.todo = Tail(@), !.found_tags = @ \cup {t},
                                  !.tags = Append(@, t)]
                 ELSE [gen EXCEPT !.todo = Tail(@)]
    /\ UNCHANGED <<self, heap, tree, call, stack, stdout, err, pc>>

\* the generator is exhausted: g.add_nodes(tags) and the edges
AddGraph ==
    /\ pc = "list" /\ gen.todo = <<>>
    /\ gen' = [gen EXCEPT
                 !.nodes = gen.tags,
                 !.edges = UNION {{<<parent, child>> :
                                      child \in Range(iter_unique_child_tags(
                                                          tree, gen.root, parent))} :
                                    parent \in Range(gen.tags)}]
    /\ pc' = "built"
    /\ UNCHANGED <<self, heap, tree, call, stack, stdout, err>>

InitTags ==
    /\ self \in Dumpers
    /\ heap = Heap0
    /\ tree \in Trees
    /\ call = NoCall
    /\ stack = <<>>
    /\ stdout = <<>>
    /\ err = NoErr
    /\ pc = "idle"
    /\ gen = NoGen

NextTags ==
    \/ \E root \in NodesOf(tree) : BuildTagGraph(root)
    \/ IterTagList
    \/ AddGraph

SpecTags == InitTags /\ [][NextTags]_vars

(***************************************************************************)
(* The claims.                                                             *)
(***************************************************************************)
\* the nodes printed so far, in the order of printing
Emitted == [i \in 1..Len(stdout) |-> stdout[i].node]

\* n or one of its ancestors
UpFrom(n) == {n} \cup ancestors(tree, n)

\* the lines of a printed string
LinesOf(str) == Split(str, <<NL>>[1])

\* the number of edges from the dumped element down to n
RECURSIVE Distance(_)
Distance(n) == IF n = call.element \/ tree.parent[n] = 0 THEN 0
               ELSE 1 + Distance(tree.parent[n])

\* a dump call has returned normally
Completed == pc = "idle" /\ call.element # 0 /\ err = NoErr

\* the ruleset the running call walks with
ActiveRules == heap[call.rules]

\* the spec's ConfigurationError: what dump raises on a bad rules argument
\* (KeyError, or the failed assert) and on a tag without a rule (the failed assert)
ConfigurationError == {"KeyError", "AssertionError"}

\* C1: dump prints the visited nodes in pre-order: no node twice, an ancestor
\* before its descendants, and everything under a child before anything under a
\* later sibling of that child.
C1_PreOrder ==
    \A i, j \in 1..Len(stdout) :
        /\ (i # j => Emitted[i] # Emitted[j])
        /\ (Emitted[i] \in ancestors(tree, Emitted[j]) => i < j)
        /\ \A a \in UpFrom(Emitted[i]), b \in UpFrom(Emitted[j]) :
              (tree.parent[a] = tree.parent[b] /\ tree.parent[a] # 0 /\ a < b) => i < j

\* a walk of a root with two children, the first of which has a child that comes
\* last in the document's node numbering, printed all four
C1_Witness ==
    /\ Completed
    /\ Len(stdout) >= 4
    /\ SubSeq(tree.parent, 1, 4) = <<0, 1, 1, 2>>
    /\ SubSeq(Emitted, 1, 4) = <<1, 2, 4, 3>>

\* the condition under which the children of a printed node are walked
Descends(r) ==
    Arg(r.spec, "recurse", FALSE) /\ (call.maxdepth = None \/ call.maxdepth[1] > r.depth)

\* C2: the children of a node visited at depth d are visited iff its FormatSpec has
\* recurse=true and maxdepth is None or greater than d; so nothing under a node
\* without recurse, and with maxdepth=0 at depth 0 the root alone.
C2_Descent ==
    /\ \A i \in 1..Len(stdout) :
          /\ Emitted[i] # call.element => tree.parent[Emitted[i]] \in Range(Emitted)
          /\ \A c \in NodesOf(tree) :
                (tree.parent[c] = Emitted[i] /\ c \in Range(Emitted)) => Descends(stdout[i])
    /\ Completed =>
          /\ \A i \in 1..Len(stdout) : \A c \in NodesOf(tree) :
                (tree.parent[c] = Emitted[i] /\ Descends(stdout[i])) => c \in Range(Emitted)
          /\ (call.maxdepth = Some(0) /\ call.depth = 0) => Emitted = <<call.element>>

\* a finished walk that went into the children of the root and stopped, by
\* maxdepth, at a child that has children and whose FormatSpec recurses
C2_Witness ==
    /\ Completed
    /\ call.maxdepth # None
    /\ \E i \in 1..Len(stdout) : \E c \in NodesOf(tree) :
          /\ Emitted[i] # call.element
          /\ Arg(stdout[i].spec, "recurse", FALSE)
          /\ tree.parent[c] = Emitted[i]
          /\ c \notin Range(Emitted)

\* the FormatSpec the ruleset holds for a tag
RuleFor(tag) ==
    IF tag \in DOMAIN ActiveRules THEN ActiveRules[tag] ELSE ActiveRules[NoneKey]

\* C3: whatever the order of iteration, the FormatSpec applied to a node is the
\* entry of its own tag when there is one and the None entry only otherwise; a
\* child's FormatSpec comes from the ruleset, never from its parent.
C3_OwnRule ==
    \A i \in 1..Len(stdout) : stdout[i].spec = RuleFor(tree.tag[Emitted[i]])

\* under a ruleset with a None entry and an entry for para, a para printed under a
\* parent that took the None entry
C3_Witness ==
    /\ call.rules # ""
    /\ NoneKey \in DOMAIN ActiveRules /\ "para" \in DOMAIN ActiveRules
    /\ \E i, j \in 1..Len(stdout) :
          /\ tree.parent[Emitted[j]] = Emitted[i]
          /\ tree.tag[Emitted[j]] = "para"
          /\ tree.tag[Emitted[i]] \notin DOMAIN ActiveRules
          /\ stdout[j].spec # stdout[i].spec

\* the rules argument the last call ran with
RulesArg == IF call.kw.rules = None THEN self.rules ELSE call.kw.rules[1]

UnknownPreset ==
    call.element # 0 /\ RulesArg.kind = "str" /\ RulesArg.name \notin {"book", "full"}

\* C4: dump with rules a string that names no preset fails with a
\* ConfigurationError before anything is formatted or printed.
C4_UnknownPreset ==
    UnknownPreset =>
        /\ pc = "idle"
        /\ err.type \in ConfigurationError
        /\ stack = <<>>
        /\ stdout = <<>>

\* dump(element, rules='nonexistent') has raised
C4_Witness == UnknownPreset /\ call.kw.rules = Some(Str("nonexistent")) /\ err.type = "KeyError"

\* n's tag has no entry in the active ruleset, and the ruleset has no None entry
Unmatched(n) ==
    tree.tag[n] \notin DOMAIN ActiveRules /\ NoneKey \notin DOMAIN ActiveRules

\* the walk has failed its rule lookup at a node
LookupFailed == call.element # 0 /\ err.type = "AssertionError" /\ err.node # 0

\* C5: at a node whose tag has no rule, under a ruleset without None entry, the
\* walk fails with a ConfigurationError: nothing is printed for the node and the
\* walk does not go on from it.
C5_NoRule ==
    call.rules # "" =>
        /\ \A i \in 1..Len(stdout) : ~Unmatched(Emitted[i])
        /\ \A k \in 1..Len(stack) : Unmatched(stack[k].node) =>
              (stack[k].pc = "enter" /\ k = Len(stack) /\ pc = "walk")
        /\ LookupFailed =>
              /\ Unmatched(err.node)
              /\ err.type \in ConfigurationError
              /\ pc = "idle" /\ stack = <<>>
              /\ err.node \notin Range(Emitted)
              /\ (err.node # call.element => tree.parent[err.node] \in Range(Emitted))

\* the walk failed at a node under the dumped element
C5_Witness == LookupFailed /\ Unmatched(err.node) /\ err.node # call.element

\* the lines j..k of ls all have exactly n leading spaces
AllLead(ls, j, k, n) == \A x \in j..k : LeadingSpaces(ls[x]) = n

C8_Frame ==
    /\ [](\A i, j \in 1..Len(stdout) :
             tree.tag[Emitted[i]] = tree.tag[Emitted[j]] => stdout[i].spec = stdout[j].spec)
    /\ [][self' = self /\ heap' = heap /\ tree' = tree]_vars

\* a call that overrode maxdepth and rules has returned, after giving two nodes
\* the FormatSpec of one rule with a recurse key
C8_Witness ==
    /\ Completed
    /\ call.kw.maxdepth # None /\ call.maxdepth # self.maxdepth
    /\ call.kw.rules # None
    /\ \E i, j \in 1..Len(stdout) :
          /\ i < j
          /\ tree.tag[Emitted[i]] = tree.tag[Emitted[j]]
          /\ "recurse" \in DOMAIN stdout[j].spec

\* the position of n in the document
DocPos(n) == CHOOSE k \in 1..Len(preorder(tree, 1)) : preorder(tree, 1)[k] = n

\* C10 (as claimed): when the rule lookup fails at a node, the call has printed
\* nothing.
C10_NothingWritten == LookupFailed => stdout = <<>>

\* C10 (amended): when the rule lookup fails at a node n, nothing is printed for n
\* or after it, and what was printed before stays: the lines of n's ancestors up to
\* the dumped element and of the nodes visited before n; the output is empty only
\* when n is the dumped element.
C10_PrefixWritten ==
    LookupFailed =>
        /\ err.node \notin Range(Emitted)
        /\ \A i \in 1..Len(stdout) : DocPos(Emitted[i]) < DocPos(err.node)
        /\ \A a \in ancestors(tree, err.node) : a \in Range(Emitted)
        /\ (stdout = <<>>) = (err.node = call.element)

\* the lookup failed at a node that is not the dumped element, after two prints
C10_Witness == LookupFailed /\ err.node # call.element /\ Len(stdout) >= 2

\* stdout[i] is a para without title child, with non-blank text of several lines,
\* printed at depth 1 under the ruleset 'book'
ParaAtDepthOne(i) ==
    /\ call.rules = "book"
    /\ tree.tag[Emitted[i]] = "para"
    /\ stdout[i].depth = 1
    /\ find(tree, Emitted[i], "title") = 0
    /\ ~IsBlank(tree.text[Emitted[i]])
    /\ NL \in Range(tree.text[Emitted[i]])

\* the last line of the summary block: the line that ends with the colon
SummaryEnd(ls) == CHOOSE k \in 1..Len(ls) : ls[k] # <<>> /\ Last(ls[k]) = ":"

\* C7 (as claimed): such a para is printed as the summary line with 4 leading
\* spaces, then the text with 6 leading spaces on its first line and 8 on the
\* continuation lines.
C7_SixAndEight ==
    \A i \in 1..Len(stdout) : ParaAtDepthOne(i) =>
        LET ls == LinesOf(stdout[i].str)
            k == SummaryEnd(ls)
        IN /\ LeadingSpaces(ls[1]) = 4
           /\ k < Len(ls)
           /\ LeadingSpaces(ls[k + 1]) = 6
           /\ AllLead(ls, k + 2, Len(ls), 8)

\* C7 (amended): such a para is printed as the summary line with 4 leading spaces,
\* then the dedented, wrapped text at depth 2: its first line begins with 8 spaces
\* (exactly 8 when the dedented text starts with a non-blank character) and its
\* continuation lines have exactly 10.
C7_EightAndTen ==
    \A i \in 1..Len(stdout) : ParaAtDepthOne(i) =>
        LET ls == LinesOf(stdout[i].str)
            k == SummaryEnd(ls)
        IN /\ LeadingSpaces(ls[1]) = 4
           /\ k < Len(ls)
           /\ LeadingSpaces(ls[k + 1]) >= 8
           /\ dedent(tree.text[Emitted[i]])[1] \notin {SP, NL} => LeadingSpaces(ls[k + 1]) = 8
           /\ AllLead(ls, k + 2, Len(ls), 10)

\* under the default width, a para whose text is wrapped over several lines
C7_Witness ==
    \E i \in 1..Len(stdout) :
        /\ ParaAtDepthOne(i)
        /\ self.width = Width
        /\ LET ls == LinesOf(stdout[i].str)
           IN /\ SummaryEnd(ls) = 1
              /\ Len(ls) >= 3
              /\ LeadingSpaces(ls[2]) = 8

\* the first position in the document, at or under root, of a node with the tag
FirstPos(root, tag) ==
    LET doc == preorder(tree, root)
    IN CHOOSE k \in 1..Len(doc) :
          tree.tag[doc[k]] = tag /\ \A j \in 1..(k - 1) : tree.tag[doc[j]] # tag

\* C9: iter_tag_list(root) yields every tag at or under root, root's own included,
\* once each, in the order of first encounter in the document; build_tag_graph
\* takes this sequence as the graph's nodes.
C9_TagsAtAndUnder ==
    pc = "built" =>
        /\ Range(gen.tags) = {tree.tag[n] : n \in Range(preorder(tree, gen.root))}
        /\ \A i, j \in 1..Len(gen.tags) :
              i < j => FirstPos(gen.root, gen.tags[i]) < FirstPos(gen.root, gen.tags[j])
        /\ gen.nodes = gen.tags
====
